---- MODULE Spec2Model ----
(***************************************************************************)
(* ws_listener.py: WSListener polls the browser's performance log from a  *)
(* background thread, keeps a requestId -> url registry and puts one      *)
(* WebSocketMessage per WebSocket frame entry on the `messages` queue.    *)
(*                                                                         *)
(* The model has the calling threads (start / close), the worker threads  *)
(* (__thread_task / _read_loop) and the shared fields of one listener.    *)
(* Every statement that reads or writes a shared field is its own step,   *)
(* so that the interleavings of callers and workers are those of the      *)
(* Python threads.                                                        *)
(***************************************************************************)
EXTENDS Integers, Sequences, FiniteSets, TLC

(***************************************************************************)
(* Bounds of the model.                                                    *)
(***************************************************************************)
\* Thread objects that start() creates in one run.
MaxThreads == 2
\* Log entries returned by all get_log calls of one run.
MaxEntries == 3
\* Log entries returned by one get_log call.
MaxBatchLen == 2
\* Cap of the count of get_log calls that return after close cleared the flag.
MaxLate == 2

Threads == 1..MaxThreads
\* The one controlling thread of the documented scheduling model.
Controller == {1}
\* Two calling threads that share the listener.
Callers == {1, 2}

(***************************************************************************)
(* Python values.                                                          *)
(***************************************************************************)
\* Python's None (dict.get of an absent key).
None == "None"
\* The fallback of websocket_url_map.get.
UnknownURL == "Unknown URL"
WSCreated == "Network.webSocketCreated"
WSFrameReceived == "Network.webSocketFrameReceived"
WSFrameSent == "Network.webSocketFrameSent"

\* A dict is a function from its keys; {} is the function with no keys.
EmptyDict == [k \in {} |-> k]
\* key in d
Has(d, k) == k \in DOMAIN d
\* d.get(k, default)
Get(d, k, default) == IF k \in DOMAIN d THEN d[k] ELSE default
\* A test for None only: the empty string passes.
TruthyNotNone(v) == v # None

\* bool(v) of a str-or-None value
Truthy(v) == v # None /\ v # ""

(***************************************************************************)
(* Log entries.  entry["message"] is a text; the text is modelled by the  *)
(* document it decodes to ([doc |-> d]) or as undecodable ([bad |-> s]).  *)
(***************************************************************************)
LogEntry(m) == [message |-> [doc |-> [message |-> m]]]
Created(id, url) ==
    LogEntry([method |-> WSCreated, params |-> [requestId |-> id, url |-> url]])
Frame(method, id, response, ts) ==
    LogEntry([method |-> method,
              params |-> [requestId |-> id, response |-> response, timestamp |-> ts]])

\* The entries get_log may return.
EntryPool ==
    { Created("r1", "wss://a"),
      Created("r1", "wss://b"),
      Created("r1", ""),
      LogEntry([method |-> WSCreated, params |-> [url |-> "wss://a"]]),
      Frame(WSFrameReceived, "r1", [payloadData |-> "hi"], 1),
      Frame(WSFrameSent, "r1", [payloadData |-> "hi"], 1),
      Frame(WSFrameReceived, "r2", [payloadData |-> "yo"], 2),
      Frame(WSFrameReceived, "r1", EmptyDict, 3),
      LogEntry([method |-> WSFrameSent, params |-> [requestId |-> "r1", timestamp |-> 4]]),
      LogEntry([method |-> "Page.loadEventFired", params |-> EmptyDict]),
      [message |-> [bad |-> "{"]] }

\* The entries get_log may return in the runs that restart the listener.
CorePool ==
    { Created("r1", "wss://a"),
      Frame(WSFrameReceived, "r1", [payloadData |-> "hi"], 1),
      [message |-> [bad |-> "{"]] }

\* The entries get_log may return in the runs with several calling threads.
RacePool ==
    { Frame(WSFrameReceived, "r1", [payloadData |-> "hi"], 1),
      [message |-> [bad |-> "{"]] }

\* The batches one get_log call may return when n more entries fit the run.
Batches(pool, n) ==
    UNION { [1..k -> pool] : k \in 0..(IF n < MaxBatchLen THEN n ELSE MaxBatchLen) }

(***************************************************************************)
(* State.                                                                  *)
(***************************************************************************)
VARIABLES
    running,            \* self.running (Event): is_set()
    thread,             \* self.thread: a Thread id, 0 for None
    driver,             \* self.driver: a browser session id, 0 for None
    websocket_url_map,  \* self.websocket_url_map
    messages,           \* self.messages (Queue), oldest first
    sessions,           \* browser sessions that are open
    wpc,                \* per Thread object: where it is in __thread_task
    logs,               \* per worker: entries of `logs` the for loop has yet to visit
    cpc,                \* per calling thread: where it is in start / close
    joined,             \* per calling thread: the Thread its join() waits for
    outcome,            \* per calling thread: how its last call ended
    \* history, read by the properties only
    retrieved,          \* every entry get_log has returned, in retrieval order
    at,                 \* per worker: index in `retrieved` of Head(logs)
    seen,               \* indices of the entries whose classification completed
    origin,             \* per queued Message: index of the entry that put it
    leave,              \* per worker: how it left the try body
    calm,               \* per calling thread: its close was called with no worker alive
    calmEnds,           \* how the closes called with no worker alive have ended
    lateLogs            \* get_log calls that returned since close last cleared the flag

vars == <<running, thread, driver, websocket_url_map, messages, sessions, wpc, logs,
          cpc, joined, outcome, retrieved, at, seen, origin, leave,
          calm, calmEnds, lateLogs>>

shared == <<running, thread, driver, websocket_url_map, messages, sessions>>
history == <<retrieved, at, seen, origin, leave>>
\* What the runs that observe close record about it.
notes == <<calm, calmEnds, lateLogs>>

Init ==
    /\ running = FALSE
    /\ thread = 0
    /\ driver = 0
    /\ websocket_url_map = EmptyDict
    /\ messages = <<>>
    /\ sessions = {}
    /\ wpc = [t \in Threads |-> "unborn"]
    /\ logs = [t \in Threads |-> <<>>]
    /\ cpc = [c \in Callers |-> "idle"]
    /\ joined = [c \in Callers |-> 0]
    /\ outcome = [c \in Callers |-> "none"]
    /\ retrieved = <<>>
    /\ at = [t \in Threads |-> 0]
    /\ seen = <<>>
    /\ origin = <<>>
    /\ leave = [t \in Threads |-> "none"]
    /\ calm = [c \in Callers |-> FALSE]
    /\ calmEnds = {}
    /\ lateLogs = 0

\* Thread.is_alive()
Alive(t) == wpc[t] \notin {"unborn", "new", "dead"}
\* Thread objects created so far
ThreadObjects == {t \in Threads : wpc[t] # "unborn"}
\* Calling threads that passed start's check and have not yet created their Thread
Starting == {c \in Callers : cpc[c] \in {"start_set", "start_new"}}

(***************************************************************************)
(* start                                                                   *)
(***************************************************************************)
\* A start that does not look at the flag.
AlreadyRunningNever == FALSE

\* if self.running.is_set()
AlreadyRunning == running

\* if self.running.is_set(): raise RuntimeError("Listener is already running...")
StartCheck(c) ==
    /\ cpc[c] = "idle"
    /\ IF AlreadyRunning
       THEN /\ outcome' = [outcome EXCEPT ![c] = "already_running"]
            /\ UNCHANGED cpc
       ELSE \* the run creates at most MaxThreads Thread objects
            /\ Cardinality(ThreadObjects) + Cardinality(Starting) < MaxThreads
            /\ cpc' = [cpc EXCEPT ![c] = "start_set"]
            /\ UNCHANGED outcome
    /\ UNCHANGED <<shared, wpc, logs, joined, history>>

\* self.running.set()
StartSet(c) ==
    /\ cpc[c] = "start_set"
    /\ running' = TRUE
    /\ cpc' = [cpc EXCEPT ![c] = "start_new"]
    /\ UNCHANGED <<thread, driver, websocket_url_map, messages, sessions, wpc, logs,
                   joined, outcome, history>>

\* self.thread = Thread(name="WSListener", target=self.__thread_task, daemon=True)
StartNew(c) ==
    /\ cpc[c] = "start_new"
    /\ LET t == CHOOSE u \in Threads : wpc[u] = "unborn" /\ \A v \in Threads : wpc[v] = "unborn" => u <= v
       IN /\ thread' = t
          /\ wpc' = [wpc EXCEPT ![t] = "new"]
    /\ cpc' = [cpc EXCEPT ![c] = "start_run"]
    /\ UNCHANGED <<running, driver, websocket_url_map, messages, sessions, logs,
                   joined, outcome, history>>

\* self.thread.start(): the Thread self.thread names now; a Thread starts once
StartRun(c) ==
    /\ cpc[c] = "start_run"
    /\ IF wpc[thread] = "new"
       THEN /\ wpc' = [wpc EXCEPT ![thread] = "chrome"]
            /\ outcome' = [outcome EXCEPT ![c] = "started"]
       ELSE /\ outcome' = [outcome EXCEPT ![c] = "start_twice"]
            /\ UNCHANGED wpc
    /\ cpc' = [cpc EXCEPT ![c] = "idle"]
    /\ UNCHANGED <<shared, logs, joined, history>>

(***************************************************************************)
(* close                                                                   *)
(***************************************************************************)
\* self.running.clear()
CloseClear(c) ==
    /\ cpc[c] = "idle"
    /\ running' = FALSE
    /\ cpc' = [cpc EXCEPT ![c] = "close_join"]
    /\ UNCHANGED <<thread, driver, websocket_url_map, messages, sessions, wpc, logs,
                   joined, outcome, history>>

\* self.thread.join(): None has no join; a Thread not yet started cannot be joined
CloseJoin(c) ==
    /\ cpc[c] = "close_join"
    /\ IF thread = 0
       THEN /\ outcome' = [outcome EXCEPT ![c] = "AttributeError"]
            /\ cpc' = [cpc EXCEPT ![c] = "idle"]
            /\ UNCHANGED joined
       ELSE IF wpc[thread] = "new"
       THEN /\ outcome' = [outcome EXCEPT ![c] = "join_unstarted"]
            /\ cpc' = [cpc EXCEPT ![c] = "idle"]
            /\ UNCHANGED joined
       ELSE /\ joined' = [joined EXCEPT ![c] = thread]
            /\ cpc' = [cpc EXCEPT ![c] = "joining"]
            /\ UNCHANGED outcome
    /\ UNCHANGED <<shared, wpc, logs, history>>

\* A join that does not wait.
JoinableAtOnce(t) == TRUE

\* join() returns once the Thread has terminated
Joinable(t) == wpc[t] = "dead"

CloseReturn(c) ==
    /\ cpc[c] = "joining"
    /\ Joinable(joined[c])
    /\ cpc' = [cpc EXCEPT ![c] = "idle"]
    /\ outcome' = [outcome EXCEPT ![c] = "closed"]
    /\ UNCHANGED <<shared, wpc, logs, joined, history>>

(***************************************************************************)
(* _read_loop: what one pass of the for loop does with one entry.          *)
(***************************************************************************)
\* json_loads(entry["message"])["message"] succeeds
Parses(entry) == Has(entry.message, "doc") /\ Has(entry.message.doc, "message")
\* message = json_loads(entry["message"])["message"]
Message(entry) == entry.message.doc.message
\* method = message.get("method", "")
Method(m) == Get(m, "method", "")
\* params = message.get("params", {})
Params(m) == Get(m, "params", EmptyDict)
\* message["params"]["response"] finds both keys
HasResponse(m) == Has(m, "params") /\ Has(m.params, "response")

\* websocket_url_map[request_id]: an unregistered id raises KeyError.
ClassifyRaisesUnknown(entry) ==
    \/ ~Parses(entry)
    \/ /\ Method(Message(entry)) \in {WSFrameReceived, WSFrameSent}
       /\ \/ ~HasResponse(Message(entry))
          \/ Get(Params(Message(entry)), "requestId", None) \notin DOMAIN websocket_url_map

\* The pass raises: the entry does not decode, or a frame has no params/response.
ClassifyRaises(entry) ==
    \/ ~Parses(entry)
    \/ /\ Method(Message(entry)) \in {WSFrameReceived, WSFrameSent}
       /\ ~HasResponse(Message(entry))

\* setdefault: the first URL of a requestId is kept.
RegisterOnce(map, id, url) ==
    [k \in DOMAIN map \cup {id} |-> IF k \in DOMAIN map THEN map[k] ELSE url]

\* self.websocket_url_map[request_id] = ws_url
Register(map, id, url) ==
    [k \in DOMAIN map \cup {id} |-> IF k = id THEN url ELSE map[k]]

\* A lookup that never finds the key.
ResolveNever(map, id) == UnknownURL

\* self.websocket_url_map.get(request_id, "Unknown URL")
Resolve(map, id) == IF id \in DOMAIN map THEN map[id] ELSE UnknownURL

\* WebSocketMessage(payload, request_id, timestamp, ws_url, received=...)
WebSocketMessage(payload, request_id, timestamp, url, received) ==
    [payload |-> payload, request_id |-> request_id, timestamp |-> timestamp,
     url |-> url, received |-> received]

\* A LIFO queue: the newest Message is handed out first.
PutFront(queue, msg) == <<msg>> \o queue

\* self.messages.put(msg)
Put(queue, msg) == Append(queue, msg)

\* The Message of a frame entry with decoded message m.
FrameMessage(map, m, received) ==
    WebSocketMessage(Get(m.params.response, "payloadData", ""),
                     Get(Params(m), "requestId", None),
                     Get(m.params, "timestamp", None),
                     Resolve(map, Get(Params(m), "requestId", None)),
                     received)

\* if request_id and ws_url
Registers(m) ==
    /\ Method(m) = WSCreated
    /\ Truthy(Get(Params(m), "requestId", None))
    /\ Truthy(Get(Params(m), "url", None))

\* The registry after the pass over an entry that does not raise.
MapAfter(map, entry) ==
    IF Registers(Message(entry))
    THEN Register(map, Params(Message(entry)).requestId, Params(Message(entry)).url)
    ELSE map

\* A sent branch that does not look the URL up.
QueueAfterSentUnresolved(queue, map, entry) ==
    IF Method(Message(entry)) = WSFrameReceived
    THEN Put(queue, FrameMessage(map, Message(entry), TRUE))
    ELSE IF Method(Message(entry)) = WSFrameSent
    THEN Put(queue, FrameMessage(EmptyDict, Message(entry), FALSE))
    ELSE queue

\* A creation entry that also rewrites the url of the Messages queued for its id.
QueueAfterBackfill(queue, map, entry) ==
    IF Method(Message(entry)) = WSFrameReceived
    THEN Put(queue, FrameMessage(map, Message(entry), TRUE))
    ELSE IF Method(Message(entry)) = WSFrameSent
    THEN Put(queue, FrameMessage(map, Message(entry), FALSE))
    ELSE IF Registers(Message(entry))
    THEN [i \in 1..Len(queue) |->
            IF queue[i].request_id = Params(Message(entry)).requestId
            THEN [queue[i] EXCEPT !.url = Params(Message(entry)).url]
            ELSE queue[i]]
    ELSE queue

\* The queue after the pass over an entry that does not raise.
QueueAfter(queue, map, entry) ==
    IF Method(Message(entry)) = WSFrameReceived
    THEN Put(queue, FrameMessage(map, Message(entry), TRUE))
    ELSE IF Method(Message(entry)) = WSFrameSent
    THEN Put(queue, FrameMessage(map, Message(entry), FALSE))
    ELSE queue

(***************************************************************************)
(* __thread_task and _read_loop, one step per statement.                   *)
(***************************************************************************)
\* No try/finally: an exception ends the thread where it is raised.
OnRaiseDie == "dead"

\* An except clause around the loop body: the batch is dropped, the loop goes on.
OnRaiseSwallow == "loop"

\* Where control goes when a statement of the try body raises: the finally.
OnRaise == "quit"

\* An exception leaves the try body of worker t.
Raise(t) ==
    /\ wpc' = [wpc EXCEPT ![t] = OnRaise]
    /\ logs' = [logs EXCEPT ![t] = <<>>]
    /\ at' = [at EXCEPT ![t] = 0]
    /\ leave' = [leave EXCEPT ![t] = "abrupt"]

\* self.driver = webdriver.Chrome(options=self.opts), before the try
NewDriver(t) ==
    /\ wpc[t] = "chrome"
    /\ \E ok \in BOOLEAN :
         IF ok
         THEN /\ driver' = t
              /\ sessions' = sessions \cup {t}
              /\ wpc' = [wpc EXCEPT ![t] = "enable"]
              /\ UNCHANGED leave
         ELSE /\ wpc' = [wpc EXCEPT ![t] = "dead"]
              /\ leave' = [leave EXCEPT ![t] = "nosession"]
              /\ UNCHANGED <<driver, sessions>>
    /\ UNCHANGED <<running, thread, websocket_url_map, messages, logs, cpc, joined,
                   outcome, retrieved, at, seen, origin>>

\* self.driver.execute_cdp_cmd("Network.enable", {})
EnableCapture(t) ==
    /\ wpc[t] = "enable"
    /\ \E ok \in BOOLEAN :
         IF ok /\ driver \in sessions
         THEN /\ wpc' = [wpc EXCEPT ![t] = "navigate"]
              /\ UNCHANGED <<logs, at, leave>>
         ELSE Raise(t)
    /\ UNCHANGED <<shared, cpc, joined, outcome, retrieved, seen, origin>>

\* self.driver.get(self.url)
Navigate(t) ==
    /\ wpc[t] = "navigate"
    /\ \E ok \in BOOLEAN :
         IF ok /\ driver \in sessions
         THEN /\ wpc' = [wpc EXCEPT ![t] = "loop"]
              /\ UNCHANGED <<logs, at, leave>>
         ELSE Raise(t)
    /\ UNCHANGED <<shared, cpc, joined, outcome, retrieved, seen, origin>>

\* A loop that runs until a call fails: while True.
LoopTestDeaf(t) ==
    /\ wpc[t] = "loop"
    /\ wpc' = [wpc EXCEPT ![t] = "poll"]
    /\ UNCHANGED <<shared, logs, cpc, joined, outcome, history>>

\* while self.running.is_set()
LoopTest(t) ==
    /\ wpc[t] = "loop"
    /\ IF running
       THEN /\ wpc' = [wpc EXCEPT ![t] = "poll"]
            /\ UNCHANGED leave
       ELSE /\ wpc' = [wpc EXCEPT ![t] = "quit"]
            /\ leave' = [leave EXCEPT ![t] = "graceful"]
    /\ UNCHANGED <<shared, logs, cpc, joined, outcome, retrieved, at, seen, origin>>

\* logs = self.driver.get_log("performance")
GetLog(t, pool) ==
    /\ wpc[t] = "poll"
    /\ \E ok \in BOOLEAN :
         IF ok /\ driver \in sessions
         THEN \E b \in Batches(pool, MaxEntries - Len(retrieved)) :
                /\ logs' = [logs EXCEPT ![t] = b]
                /\ wpc' = [wpc EXCEPT ![t] = IF b = <<>> THEN "loop" ELSE "classify"]
                /\ retrieved' = retrieved \o b
                /\ at' = [at EXCEPT ![t] = IF b = <<>> THEN 0 ELSE Len(retrieved) + 1]
                /\ UNCHANGED leave
         ELSE /\ Raise(t)
              /\ UNCHANGED retrieved
    /\ UNCHANGED <<shared, cpc, joined, outcome, seen, origin>>

\* A loop body that tests the flag: if not self.running.is_set(): break
ClassifyUntilCleared(t) ==
    /\ wpc[t] = "classify"
    /\ LET entry == Head(logs[t])
       IN IF ~running
          THEN /\ logs' = [logs EXCEPT ![t] = <<>>]
               /\ wpc' = [wpc EXCEPT ![t] = "loop"]
               /\ at' = [at EXCEPT ![t] = 0]
               /\ UNCHANGED <<websocket_url_map, messages, seen, origin, leave>>
          ELSE IF ClassifyRaises(entry)
          THEN /\ Raise(t)
               /\ UNCHANGED <<websocket_url_map, messages, seen, origin>>
          ELSE /\ websocket_url_map' = MapAfter(websocket_url_map, entry)
               /\ messages' = QueueAfter(messages, websocket_url_map, entry)
               /\ logs' = [logs EXCEPT ![t] = Tail(logs[t])]
               /\ wpc' = [wpc EXCEPT ![t] = IF Tail(logs[t]) = <<>> THEN "loop" ELSE "classify"]
               /\ at' = [at EXCEPT ![t] = IF Tail(logs[t]) = <<>> THEN 0 ELSE at[t] + 1]
               /\ seen' = Append(seen, at[t])
               /\ origin' = IF messages' # messages THEN Append(origin, at[t]) ELSE origin
               /\ UNCHANGED leave
    /\ UNCHANGED <<running, thread, driver, sessions, cpc, joined, outcome, retrieved>>

\* for entry in logs: one pass of the loop body
Classify(t) ==
    /\ wpc[t] = "classify"
    /\ LET entry == Head(logs[t])
       IN IF ClassifyRaises(entry)
          THEN /\ Raise(t)
               /\ UNCHANGED <<websocket_url_map, messages, seen, origin>>
          ELSE /\ websocket_url_map' = MapAfter(websocket_url_map, entry)
               /\ messages' = QueueAfter(messages, websocket_url_map, entry)
               /\ logs' = [logs EXCEPT ![t] = Tail(logs[t])]
               /\ wpc' = [wpc EXCEPT ![t] = IF Tail(logs[t]) = <<>> THEN "loop" ELSE "classify"]
               /\ at' = [at EXCEPT ![t] = IF Tail(logs[t]) = <<>> THEN 0 ELSE at[t] + 1]
               /\ seen' = Append(seen, at[t])
               /\ origin' = IF messages' # messages THEN Append(origin, at[t]) ELSE origin
               /\ UNCHANGED leave
    /\ UNCHANGED <<running, thread, driver, sessions, cpc, joined, outcome, retrieved>>

\* finally: self.driver.quit(), on the session self.driver names now.  Chrome's
\* quit() suppresses the errors of the quit command, so the call returns.
Quit(t) ==
    /\ wpc[t] = "quit"
    /\ sessions' = sessions \ {driver}
    /\ wpc' = [wpc EXCEPT ![t] = "clear"]
    /\ UNCHANGED <<running, thread, driver, websocket_url_map, messages, logs, cpc,
                   joined, outcome, history>>

\* A finally block that ends without clearing the flag.
ClearRunningSkipped(t) ==
    /\ wpc[t] = "clear"
    /\ wpc' = [wpc EXCEPT ![t] = "dead"]
    /\ UNCHANGED <<shared, logs, cpc, joined, outcome, history>>

\* finally: self.running.clear(), after which the thread function returns
ClearRunning(t) ==
    /\ wpc[t] = "clear"
    /\ running' = FALSE
    /\ wpc' = [wpc EXCEPT ![t] = "dead"]
    /\ UNCHANGED <<thread, driver, websocket_url_map, messages, sessions, logs, cpc,
                   joined, outcome, history>>

(***************************************************************************)
(* Specifications.                                                         *)
(***************************************************************************)
Call(c) ==
    \/ StartCheck(c)
    \/ StartSet(c)
    \/ StartNew(c)
    \/ StartRun(c)
    \/ CloseClear(c)
    \/ CloseJoin(c)
    \/ CloseReturn(c)

Work(t, pool) ==
    \/ NewDriver(t)
    \/ EnableCapture(t)
    \/ Navigate(t)
    \/ LoopTest(t)
    \/ GetLog(t, pool)
    \/ Classify(t)
    \/ Quit(t)
    \/ ClearRunning(t)

\* One controlling thread calls start and close, any number of times.
Next ==
    \/ \E c \in Controller : Call(c) /\ UNCHANGED notes
    \/ \E t \in Threads : Work(t, CorePool) /\ UNCHANGED notes
Spec == Init /\ [][Next]_vars

\* One session: the controlling thread starts the listener once.
NextSession ==
    \/ \E c \in Controller :
         Call(c) /\ (cpc'[c] = "start_set" => thread = 0) /\ UNCHANGED notes
    \/ \E t \in Threads : Work(t, EntryPool) /\ UNCHANGED notes
SpecSession == Init /\ [][NextSession]_vars

\* Several threads call start and close on the same listener.
NextMT ==
    \/ \E c \in Callers : Call(c) /\ UNCHANGED notes
    \/ \E t \in Threads : Work(t, RacePool) /\ UNCHANGED notes
SpecMT == Init /\ [][NextMT]_vars

\* No worker thread exists or is about to: none was ever started, or each has
\* terminated.
NotRunning == \A t \in Threads : wpc[t] \in {"unborn", "dead"}

\* What a step of calling thread c adds to the record of the closes that were
\* called with no worker alive.
NoteClose(c) ==
    /\ calm' = IF cpc[c] = "idle" /\ cpc'[c] = "close_join"
               THEN [calm EXCEPT ![c] = NotRunning]
               ELSE IF cpc'[c] = "idle" THEN [calm EXCEPT ![c] = FALSE] ELSE calm
    /\ calmEnds' = IF cpc[c] \in {"close_join", "joining"} /\ cpc'[c] = "idle" /\ calm[c]
                   THEN calmEnds \cup {outcome'[c]}
                   ELSE calmEnds

\* The controlling thread calls start and close any number of times; the run
\* records how each close called with no worker alive ended.
NextClose ==
    \/ \E c \in Controller : Call(c) /\ NoteClose(c) /\ UNCHANGED lateLogs
    \/ \E t \in Threads : Work(t, RacePool) /\ UNCHANGED notes
SpecClose == Init /\ [][NextClose]_vars

\* close starts the count of the get_log calls that return with the flag cleared.
NoteClear(c) ==
    lateLogs' = IF cpc[c] = "idle" /\ cpc'[c] = "close_join" THEN 0 ELSE lateLogs
\* A get_log call of worker t that returns while the flag is cleared is counted.
NoteLog(t) ==
    lateLogs' = IF wpc[t] = "poll" /\ wpc'[t] \in {"loop", "classify"}
                   /\ ~running /\ lateLogs < MaxLate
                THEN lateLogs + 1
                ELSE lateLogs

\* The steps of the run that counts the polls that return after close.
CallStop(c) == Call(c) /\ NoteClear(c) /\ UNCHANGED <<calm, calmEnds>>
WorkStop(t) == Work(t, RacePool) /\ NoteLog(t) /\ UNCHANGED <<calm, calmEnds>>
\* join() in close: the calling thread blocks in it and goes on when it can.
Joining(c) == (CloseJoin(c) \/ CloseReturn(c)) /\ UNCHANGED notes

\* The worker thread is scheduled and each of its calls (get_log, quit, the
\* other driver calls) returns or raises; a calling thread inside close goes on.
NextStop == (\E c \in Controller : CallStop(c)) \/ (\E t \in Threads : WorkStop(t))
SpecStop ==
    /\ Init /\ [][NextStop]_vars
    /\ \A t \in Threads : WF_vars(WorkStop(t))
    /\ \A c \in Controller : WF_vars(Joining(c))

(***************************************************************************)
(* Vocabulary of the properties: what an entry is, read from the entry     *)
(* itself and from the history of the run.                                 *)
(***************************************************************************)
\* Worker t makes one pass of the for loop in this step.
ClassifyStep(t) == wpc[t] = "classify" /\ logs'[t] # logs[t]
\* The pass of worker t completes without raising in this step.
ClassifyDone(t) == ClassifyStep(t) /\ wpc'[t] \in {"classify", "loop"} /\ leave'[t] = leave[t]

Decoded(e) == "doc" \in DOMAIN e.message /\ "message" \in DOMAIN e.message.doc
EntryMethod(e) == IF "method" \in DOMAIN e.message.doc.message THEN e.message.doc.message.method ELSE ""
HasParam(e, k) ==
    /\ "params" \in DOMAIN e.message.doc.message
    /\ k \in DOMAIN e.message.doc.message.params
Param(e, k) == e.message.doc.message.params[k]
\* A connection-created entry.
IsCreated(e) == Decoded(e) /\ EntryMethod(e) = WSCreated
\* A connection-created entry that carries requestId R and a URL (both non-empty).
IsCreatedFor(e, R) ==
    /\ IsCreated(e)
    /\ HasParam(e, "requestId") /\ Param(e, "requestId") = R /\ R # ""
    /\ HasParam(e, "url") /\ Param(e, "url") # ""
\* A frame entry: frame-received or frame-sent, with its response object.
IsFrame(e) ==
    /\ Decoded(e)
    /\ EntryMethod(e) \in {WSFrameReceived, WSFrameSent}
    /\ HasParam(e, "response")
IsReceived(e) == IsFrame(e) /\ EntryMethod(e) = WSFrameReceived
FrameId(e) == IF HasParam(e, "requestId") THEN Param(e, "requestId") ELSE None
FramePayload(e) ==
    IF "payloadData" \in DOMAIN Param(e, "response") THEN Param(e, "response").payloadData ELSE ""

\* Positions in `seen` of the creation entries for R classified so far.
CreationsFor(R) == {i \in 1..Len(seen) : IsCreatedFor(retrieved[seen[i]], R)}
LastOf(S) == CHOOSE i \in S : \A j \in S : j <= i
\* The URL of the most recent creation entry for R.
LatestUrl(R) == Param(retrieved[seen[LastOf(CreationsFor(R))]], "url")
\* Two creation entries for R with different URLs have been classified.
Overwritten(R) ==
    \E i, j \in CreationsFor(R) :
        Param(retrieved[seen[i]], "url") # Param(retrieved[seen[j]], "url")
\* The step appends exactly one Message, with this url and direction.
Appends(url, received) ==
    /\ Len(messages') = Len(messages) + 1
    /\ SubSeq(messages', 1, Len(messages)) = messages
    /\ messages'[Len(messages')].url = url
    /\ messages'[Len(messages')].received = received

(***************************************************************************)
(* C1: a connection-created entry with requestId R and url U, followed    *)
(* (same or later batch, no other creation entry for R in between) by a   *)
(* frame-received entry with requestId R, adds exactly one Message, with  *)
(* url U and received true; the creation entry itself adds no Message.    *)
(* R and U are an identifier and a URL, that is non-empty.                 *)
(***************************************************************************)
C1_CreatedThenReceived ==
    [][\A t \in Threads :
         LET e == Head(logs[t])
         IN /\ (ClassifyStep(t) /\ IsCreated(e)) => messages' = messages
            /\ (ClassifyStep(t) /\ IsReceived(e) /\ CreationsFor(FrameId(e)) # {})
                  => Appends(LatestUrl(FrameId(e)), TRUE)]_vars

\* A received frame was resolved to the URL its creation entry gave, in a later batch.
C1_Witness ==
    /\ Len(seen) = 3
    /\ IsCreatedFor(retrieved[seen[1]], "r1")
    /\ ~IsFrame(retrieved[seen[2]])
    /\ IsReceived(retrieved[seen[3]])
    /\ Len(messages) = 1
    /\ messages[1].url = "wss://a"
    /\ messages[1].received = TRUE

(***************************************************************************)
(* C2: within one session the Messages of the queue are in the order of   *)
(* the frame entries they come from (entry order within a batch, retrieval *)
(* order across batches); none is reordered, duplicated or dropped.        *)
(***************************************************************************)
C2_QueueOrder ==
    /\ Len(origin) = Len(messages)
    /\ \A i \in 1..(Len(origin) - 1) : origin[i] < origin[i + 1]
    /\ {origin[i] : i \in 1..Len(origin)}
          = {seen[j] : j \in {k \in 1..Len(seen) : IsFrame(retrieved[seen[k]])}}
    /\ \A i \in 1..Len(origin) :
         LET e == retrieved[origin[i]]
         IN /\ IsFrame(e)
            /\ messages[i].payload = FramePayload(e)
            /\ messages[i].request_id = FrameId(e)
            /\ messages[i].timestamp = Param(e, "timestamp")
            /\ messages[i].received = (EntryMethod(e) = WSFrameReceived)

\* Three different Messages, from at least two batches, are queued.
C2_Witness ==
    /\ Len(messages) = 3
    /\ messages[1] # messages[2]
    /\ messages[2] # messages[3]
    /\ messages[1] # messages[3]

(***************************************************************************)
(* C8: a frame-received or frame-sent entry whose requestId is not in the *)
(* registry when it is classified yields a Message with url "Unknown URL"; *)
(* the worker does not fail and goes on with the following entries.        *)
(***************************************************************************)
C8_UnknownUrl ==
    [][\A t \in Threads :
         LET e == Head(logs[t])
         IN (ClassifyStep(t) /\ IsFrame(e) /\ FrameId(e) \notin DOMAIN websocket_url_map)
               => /\ Appends(UnknownURL, EntryMethod(e) = WSFrameReceived)
                  /\ ClassifyDone(t)
                  /\ logs'[t] = Tail(logs[t])]_vars

\* An unregistered frame got the sentinel and the entry after it was classified too.
C8_Witness ==
    /\ Len(seen) = 2
    /\ seen[2] = seen[1] + 1
    /\ IsFrame(retrieved[seen[1]])
    /\ Len(messages) >= 1
    /\ messages[1].url = UnknownURL
    /\ messages[1].request_id = "r2"
    /\ DOMAIN websocket_url_map = {"r1"}

(***************************************************************************)
(* C9: after two connection-created entries with the same requestId and   *)
(* different non-empty URLs, every later frame entry with that requestId   *)
(* resolves to the URL of the most recent creation entry; the registry     *)
(* holds one URL per requestId and no entry is removed during a session.   *)
(***************************************************************************)
C9_Overwrite ==
    [][/\ \A k \in DOMAIN websocket_url_map :
            /\ k \in DOMAIN websocket_url_map'
            /\ CreationsFor(k) # {}
            /\ websocket_url_map[k] = LatestUrl(k)
       /\ \A t \in Threads :
            LET e == Head(logs[t])
            IN (ClassifyStep(t) /\ IsFrame(e) /\ Overwritten(FrameId(e)))
                  => Appends(LatestUrl(FrameId(e)), EntryMethod(e) = WSFrameReceived)]_vars

\* A frame classified after wss://a was overwritten by wss://b carries wss://b.
C9_Witness ==
    /\ Len(seen) = 3
    /\ IsCreatedFor(retrieved[seen[1]], "r1") /\ Param(retrieved[seen[1]], "url") = "wss://a"
    /\ IsCreatedFor(retrieved[seen[2]], "r1") /\ Param(retrieved[seen[2]], "url") = "wss://b"
    /\ IsFrame(retrieved[seen[3]])
    /\ Len(messages) = 1
    /\ messages[1].url = "wss://b"

(***************************************************************************)
(* Vocabulary of the lifecycle properties.                                 *)
(***************************************************************************)
\* Worker t terminates in this step.
Terminates(t) == wpc[t] # "dead" /\ wpc'[t] = "dead"
\* Calling thread c passes the check of start in this step.
StartPasses(c) == cpc[c] = "idle" /\ cpc'[c] = "start_set"
\* A call of thread c ends with this outcome in this step.
Reports(c, what) == outcome'[c] = what /\ outcome'[c] # outcome[c]
\* A close has cleared the flag and the worker it waits for has not finished.
Stopping ==
    /\ ~running
    /\ \E c \in Callers : cpc[c] \in {"close_join", "joining"}
    /\ thread # 0 /\ Alive(thread)
LiveWorkers == {t \in Threads : Alive(t)}

(***************************************************************************)
(* C3: start while the listener is running fails with the already-running *)
(* error, and the failed call changes nothing: no second worker, and the   *)
(* flag, the worker handle, the registry and the queue stay as they were.  *)
(***************************************************************************)
C3_StartWhileRunning ==
    [][\A c \in Callers :
         (cpc[c] = "idle" /\ running)
            => /\ ~StartPasses(c)
               /\ outcome'[c] # outcome[c]
                     => /\ Reports(c, "already_running")
                        /\ UNCHANGED <<running, thread, driver, websocket_url_map,
                                       messages, sessions, wpc, logs>>]_vars

\* A start was refused while the worker of the first start was polling.
C3_Witness ==
    /\ outcome[1] = "already_running"
    /\ running
    /\ thread = 1
    /\ wpc[1] = "poll"
    /\ wpc[2] = "unborn"

(***************************************************************************)
(* C4: when close, called after start, returns, the worker started by that *)
(* start has terminated, the browser session is closed and the running     *)
(* flag reads false.                                                       *)
(***************************************************************************)
C4_CloseReturns ==
    \A c \in Controller :
        (cpc[c] = "idle" /\ outcome[c] = "closed")
           => /\ thread # 0
              /\ joined[c] = thread
              /\ wpc[thread] = "dead"
              /\ sessions = {}
              /\ ~running

\* close has returned after a worker that had a session left its loop on the flag.
C4_Witness ==
    /\ cpc[1] = "idle"
    /\ outcome[1] = "closed"
    /\ leave[thread] = "graceful"

(***************************************************************************)
(* C5: on every path by which the worker leaves its loop, graceful (flag   *)
(* cleared by close) or abrupt (a failure of enable-capture, navigate,     *)
(* poll or classification), the browser session is closed before the       *)
(* worker terminates and the flag is cleared as its last step, after the   *)
(* teardown.                                                               *)
(***************************************************************************)
C5_Teardown ==
    [][\A t \in Threads :
         (Terminates(t) /\ leave'[t] \in {"graceful", "abrupt"})
            => /\ wpc[t] = "clear"
               /\ t \notin sessions
               /\ ~running']_vars

\* One worker has terminated after a graceful exit and one after a failure.
C5_Witness ==
    \E t, u \in Threads :
        /\ wpc[t] = "dead" /\ leave[t] = "graceful"
        /\ wpc[u] = "dead" /\ leave[u] = "abrupt"

(***************************************************************************)
(* C6: start succeeds only from Idle: a start invoked while the listener   *)
(* is Stopping fails with the already-running error, as it does while      *)
(* Running.                                                                *)
(***************************************************************************)
C6_StartOnlyFromIdle ==
    [][\A c \in Callers : (running \/ Stopping) => ~StartPasses(c)]_vars

(***************************************************************************)
(* C7: under every interleaving of start and close calls of any number of  *)
(* calling threads, at most one worker of the listener is alive at a time, *)
(* and a worker's final clearing of the flag never ends a session other    *)
(* than its own.                                                           *)
(***************************************************************************)
C7_OneWorker ==
    [][/\ Cardinality(LiveWorkers') <= 1
       /\ \A t \in Threads :
            (Terminates(t) /\ running /\ ~running') => LiveWorkers \subseteq {t}]_vars

(***************************************************************************)
(* C10: a failure raised in the worker during enable-capture, navigate or  *)
(* poll ends the session and returns the listener to Idle (worker          *)
(* terminated, session closed, flag false) without automatic retry, and a  *)
(* fresh start issued afterwards succeeds and launches a new worker.       *)
(***************************************************************************)
C10_FailureThenRestart ==
    [][/\ \A t \in Threads :
            (Terminates(t) /\ leave'[t] = "abrupt")
               => /\ ~running'
                  /\ sessions' = {}
                  /\ LiveWorkers' = {}
                  /\ thread' = thread
       /\ \A t \in Threads :
            (wpc[t] = "new" /\ wpc'[t] # "new")
               => \E c \in Callers : cpc[c] = "start_run" /\ cpc'[c] = "idle"
       /\ \A c \in Controller :
            (cpc[c] = "idle" /\ thread # 0 /\ wpc[thread] = "dead" /\ leave[thread] = "abrupt")
               => /\ ~running
                  /\ ~Reports(c, "already_running")]_vars

\* After a worker ended on a failure, a fresh start has launched the next worker.
C10_Witness ==
    /\ wpc[1] = "dead"
    /\ leave[1] = "abrupt"
    /\ outcome[1] = "started"
    /\ thread = 2
    /\ Alive(2)
    /\ running

(***************************************************************************)
(* C11: close, called when the listener is not running, has one            *)
(* deterministic outcome: every close called in a not-running state (never *)
(* started, already closed, worker ended by itself) ends the same way,     *)
(* always as a no-op or always with the same error.                        *)
(***************************************************************************)
C11_CloseWhenNotRunning == Cardinality(calmEnds) <= 1

\* The worker thread of a session begins to run in this step.
SessionStarts(t) == wpc[t] = "new" /\ wpc'[t] = "chrome"

(***************************************************************************)
(* C12: the registry is empty at the start of every session, so a frame    *)
(* whose requestId was registered only during an earlier session resolves  *)
(* to "Unknown URL" in the next one.                                       *)
(***************************************************************************)
C12_RegistryEmptyAtStart ==
    [][\A t \in Threads : SessionStarts(t) => websocket_url_map = EmptyDict]_vars

(***************************************************************************)
(* C13: once close has cleared the flag, at most one get_log call returns  *)
(* (the iteration in flight completes, no further one begins); the worker  *)
(* then tears down and terminates, and, every call of the worker           *)
(* returning, close returns.                                               *)
(***************************************************************************)
C13_CloseStops ==
    /\ [](lateLogs <= 1)
    /\ \A c \in Controller :
         (cpc[c] = "close_join" /\ thread # 0)
            ~> (cpc[c] = "idle" /\ outcome[c] = "closed" /\ wpc[thread] = "dead"
                /\ sessions = {})

\* close has returned after one get_log call returned with the flag cleared.
C13_Witness ==
    /\ cpc[1] = "idle"
    /\ outcome[1] = "closed"
    /\ lateLogs = 1
    /\ leave[thread] = "graceful"

\* The timestamp a frame entry carries, None when it carries none.
FrameTimestamp(e) == IF HasParam(e, "timestamp") THEN Param(e, "timestamp") ELSE None
\* Queue positions i < j whose frames were classified against the same registry
\* contents: no creation entry was classified between them.
SameRegistry(i, j) ==
    /\ i < j
    /\ \A k \in origin[i]..origin[j] : ~IsCreated(retrieved[k])
\* Entries a and b are a frame-received and a frame-sent entry (in either
\* order) with the same requestId, payload and timestamp.
Mirrored(a, b) ==
    /\ IsFrame(a) /\ IsFrame(b)
    /\ EntryMethod(a) # EntryMethod(b)
    /\ FrameId(a) = FrameId(b)
    /\ FramePayload(a) = FramePayload(b)
    /\ FrameTimestamp(a) = FrameTimestamp(b)

(***************************************************************************)
(* C14: a frame-sent and a frame-received entry with the same requestId,   *)
(* payload and timestamp, classified against the same registry contents,   *)
(* yield Messages equal in payload, request_id, timestamp and url, which   *)
(* differ only in `received`.                                              *)
(***************************************************************************)
C14_DirectionOnly ==
    \A i, j \in 1..Len(messages) :
        (SameRegistry(i, j) /\ Mirrored(retrieved[origin[i]], retrieved[origin[j]]))
           => /\ messages[i].payload = messages[j].payload
              /\ messages[i].request_id = messages[j].request_id
              /\ messages[i].timestamp = messages[j].timestamp
              /\ messages[i].url = messages[j].url
              /\ messages[i].received # messages[j].received
              /\ messages[i].received = IsReceived(retrieved[origin[i]])

\* A received and a sent frame of a registered connection are both queued.
C14_Witness ==
    /\ Len(messages) = 2
    /\ Mirrored(retrieved[origin[1]], retrieved[origin[2]])
    /\ SameRegistry(1, 2)
    /\ messages[1].url = "wss://a"
    /\ messages[1].received

\* An entry whose method is frame-received or frame-sent, whatever it carries.
IsFrameMethod(e) == Decoded(e) /\ EntryMethod(e) \in {WSFrameReceived, WSFrameSent}
\* A frame with no payload: payloadData is absent, or the nested response
\* object is.
NoPayload(e) ==
    /\ IsFrameMethod(e)
    /\ \/ ~HasParam(e, "response")
       \/ "payloadData" \notin DOMAIN Param(e, "response")

(***************************************************************************)
(* C15: a missing optional field in a frame is never fatal: the pass over  *)
(* a frame with no payload (payloadData absent, or the nested response     *)
(* object absent) enqueues a Message with an empty payload, and the worker *)
(* keeps running and goes on with the rest of the batch.                   *)
(***************************************************************************)
C15_MissingFieldNotFatal ==
    [][\A t \in Threads :
         (ClassifyStep(t) /\ NoPayload(retrieved[at[t]]))
            => /\ ClassifyDone(t)
               /\ Len(messages') = Len(messages) + 1
               /\ messages'[Len(messages')].payload = ""
               /\ logs'[t] = Tail(logs[t])]_vars

\* The positions in `retrieved` of the entries that produced a queued Message.
Enqueued == {origin[i] : i \in 1..Len(origin)}
\* Worker t has terminated after a failure inside the try body.
DiedAbruptly(t) == wpc[t] = "dead" /\ leave[t] = "abrupt"

(***************************************************************************)
(* C16: a structurally invalid log entry is fatal and takes the path of a  *)
(* transport failure: classification of the batch stops at that entry, the *)
(* Messages already enqueued stay, no Message is produced for that entry   *)
(* or for a later one, and the session is torn down and the flag cleared.  *)
(***************************************************************************)
C16_InvalidEntryFatal ==
    /\ [][\A t \in Threads :
            (ClassifyStep(t) /\ ~Decoded(retrieved[at[t]]))
               => /\ messages' = messages
                  /\ websocket_url_map' = websocket_url_map
                  /\ logs'[t] = <<>>
                  /\ wpc'[t] = "quit"
                  /\ leave'[t] = "abrupt"]_vars
    /\ [](\A t \in Threads :
            DiedAbruptly(t) =>
               /\ sessions = {}
               /\ ~running
               /\ \A j, k \in 1..Len(retrieved) :
                    (~Decoded(retrieved[j]) /\ j <= k) => k \notin Enqueued)

\* The second batch was [invalid entry, frame]: the worker has terminated and
\* the queue holds the Message of the first batch only.
C16_Witness ==
    /\ DiedAbruptly(1)
    /\ Len(retrieved) = 3
    /\ IsFrame(retrieved[1]) /\ ~Decoded(retrieved[2]) /\ IsFrame(retrieved[3])
    /\ seen = <<1>>
    /\ Len(messages) = 1

\* A creation entry whose requestId or url is missing or empty.
IsCreatedWithout(e) ==
    /\ IsCreated(e)
    /\ \/ ~HasParam(e, "requestId") \/ ~HasParam(e, "url")
       \/ Param(e, "requestId") = "" \/ Param(e, "url") = ""
\* An entry that decodes and whose method is none of the three handled ones.
IsOther(e) == Decoded(e) /\ EntryMethod(e) \notin {WSCreated, WSFrameReceived, WSFrameSent}

(***************************************************************************)
(* C17: the pass over an entry changes only what its kind allows.  A       *)
(* creation entry with a missing or empty requestId or url leaves the      *)
(* registry unchanged; a creation entry never changes the queue; a frame   *)
(* entry never changes the registry; an entry of any other method changes  *)
(* neither and is not an error.                                            *)
(***************************************************************************)
C17_OnlyItsKind ==
    [][\A t \in Threads :
         ClassifyStep(t) =>
            LET e == retrieved[at[t]]
            IN /\ IsCreatedWithout(e) => websocket_url_map' = websocket_url_map
               /\ IsCreated(e) => (messages' = messages /\ ClassifyDone(t))
               /\ IsFrameMethod(e) => websocket_url_map' = websocket_url_map
               /\ IsOther(e) => /\ websocket_url_map' = websocket_url_map
                                /\ messages' = messages
                                /\ ClassifyDone(t)]_vars

\* A creation entry with an empty url, an entry of another method and a frame
\* have been classified: nothing is registered and one Message is queued.
C17_Witness ==
    /\ Len(seen) = 3
    /\ \E i \in 1..3 : IsCreatedWithout(retrieved[seen[i]])
    /\ \E i \in 1..3 : IsOther(retrieved[seen[i]])
    /\ \E i \in 1..3 : IsFrame(retrieved[seen[i]])
    /\ websocket_url_map = EmptyDict
    /\ Len(messages) = 1

\* An entry on which the pass raises: it does not decode, or it is a frame
\* without its response object.
IsFatal(e) == ~Decoded(e) \/ (IsFrameMethod(e) /\ ~HasParam(e, "response"))
\* The positions in `retrieved` of the frame entries.
FramesRetrieved == {k \in 1..Len(retrieved) : IsFrame(retrieved[k])}

(***************************************************************************)
(* C18: the flag is read only at the top of a loop iteration.  When close  *)
(* clears it while a batch is being classified, every remaining entry of   *)
(* the batch is still classified and enqueued before the worker exits, so  *)
(* after close returns (the worker having left on the flag) the queue      *)
(* holds the Messages of every frame entry of every retrieved batch.       *)
(***************************************************************************)
C18_BatchCompletes ==
    /\ [][\A t \in Threads :
            (ClassifyStep(t) /\ ~running /\ ~IsFatal(retrieved[at[t]]))
               => /\ ClassifyDone(t)
                  /\ logs'[t] = Tail(logs[t])
                  /\ seen' = Append(seen, at[t])
                  /\ IsFrame(retrieved[at[t]]) => Len(messages') = Len(messages) + 1]_vars
    /\ [](\A c \in Controller :
            (cpc[c] = "idle" /\ outcome[c] = "closed" /\ leave[thread] = "graceful")
               => /\ seen = [k \in 1..Len(retrieved) |-> k]
                  /\ Enqueued = FramesRetrieved
                  /\ Len(messages) = Cardinality(FramesRetrieved))

\* close has cleared the flag and waits in join while the worker is in the
\* middle of a batch of two frames: one is classified, one remains.
C18_Witness ==
    /\ ~running
    /\ cpc[1] = "joining"
    /\ wpc[1] = "classify"
    /\ Len(retrieved) = 2
    /\ at[1] = 2
    /\ IsFrame(retrieved[1]) /\ IsFrame(retrieved[2])
    /\ Len(messages) = 1

(***************************************************************************)
(* C19: in every reachable state in which the worker thread has            *)
(* terminated, the running flag is false, so the listener is never left    *)
(* unable to start; this holds also when the browser session could not be  *)
(* established.  (The state is taken between the calls of the controlling  *)
(* thread, the worker being the one its last start created.)               *)
(***************************************************************************)
C19_TerminatedMeansNotRunning ==
    ((\A c \in Controller : cpc[c] = "idle") /\ thread # 0 /\ wpc[thread] = "dead")
        => ~running

(***************************************************************************)
(* C20: the url of a Message is fixed when its frame is classified.  No    *)
(* step changes a queued Message: a frame classified before the creation   *)
(* entry of its connection keeps "Unknown URL", and one classified before  *)
(* an overwrite keeps the earlier URL.                                     *)
(***************************************************************************)
C20_QueuedMessageFixed ==
    /\ [][/\ Len(messages') >= Len(messages)
          /\ \A i \in 1..Len(messages) : messages'[i] = messages[i]]_vars
    /\ [](\A i \in 1..Len(messages) :
            LET R == messages[i].request_id
                before == {j \in CreationsFor(R) : seen[j] < origin[i]}
            IN messages[i].url = IF before = {} THEN UnknownURL
                                 ELSE Param(retrieved[seen[LastOf(before)]], "url"))

\* A frame of r1 was classified before the creation entry of r1: r1 is now
\* registered and the queued Message still reads "Unknown URL".
C20_Witness ==
    /\ Len(messages) >= 1
    /\ messages[1].request_id = "r1"
    /\ messages[1].url = UnknownURL
    /\ "r1" \in DOMAIN websocket_url_map

====
